---- MODULE Spec2Model ----
(***************************************************************************)
(* A model of the Mobius clock (src/script.js): the procedural strip mesh  *)
(* (cross-section points, vertex buffer, triangle index buffer, material   *)
(* groups), the edge path, and the time-to-position mapping of the hour    *)
(* indicator.                                                              *)
(*                                                                         *)
(* Real numbers are modelled exactly.  Every trigonometric quantity of     *)
(* generateMobius3dPoints is s*cos(A) or s*sin(A) for an angle             *)
(* A = b*beta + a*(pi/N) with b in {-1,+1} and a an integer, so a value is *)
(* kept in the normal form "angle beta + a*(pi/N), a in 0..2N-1" obtained  *)
(* with cos(-x) = cos x, sin(-x) = -sin x, cos(x+pi) = -cos x and          *)
(* sin(x+pi) = -sin x.  beta = asin(m_Ht/(2s)) is no rational multiple of  *)
(* pi/N, so two values are equal exactly when their normal forms are.      *)
(* Times are integers: milliseconds, and hours in units of 1/HourUnit.     *)
(* JavaScript arrays are sequences; element k of the array is seq[k+1].    *)
(***************************************************************************)
EXTENDS Integers, Sequences, FiniteSets, TLC

\* const NRECT = 360; m_NumPoints = NRECT
NRECT == 360

\* Largest small segment count tried besides NRECT.
MaxN == 6

\* The segment counts the mesh construction is run with.
NValues == (3..MaxN) \cup {NRECT}

\* The options of the tick scheme select.
TickSchemes == {"minimal", "standard", "alternating", "alternating_ticks"}

VARIABLES
    pc,                 \* "load": script loaded, init() not yet run; "running": after init()
    m_NumPoints,        \* number of cross-sections (= NRECT in the source)
    pointArrays,        \* the nine m_...3DPtArray arrays, one field each
    currentTickScheme,
    mobiusStripMesh,    \* the mesh in the scene: vertices, indices, groups; Null before init()
    edgePath,
    zenMode,
    preZenState,
    fastMode,
    hourNumbersGroup,   \* Null before init(), then [visible |-> ..., children |-> ...]
    indicatorShapes,
    hourSphere,         \* Null before init(), then [geometry |-> ..., position |-> ...]
    lastUpdate,         \* the locals of the last updateClock() call; Null before the first
    clock,              \* the wall clock, in ticks since midnight
    visited,            \* history: the edge path indices the hour indicator has been at
    travelled,          \* history: ticks of wall clock since the first frame
    minuteSphere,       \* Null before init(), then [geometry |-> ...]
    secondSphere,       \* Null before init(), then [geometry |-> ...]
    mobiusGroup,        \* the scene group: the number of attached objects of each kind
    unreleased,         \* per kind, the geometries and materials of removed meshes not disposed
    sceneLog,           \* the scene operations of the last handler that changed the scene
    lookups,            \* the array lookups of the last handler that ran updateClock()
    frameLog,           \* the stages of the last animate() call, in the order it ran them
    rotation,           \* mobiusGroup.rotation.y, in increments of 0.005
    rotationEnabled,
    timeStyle,
    params,             \* window.location.hash: the parameters it holds, name and value
    fontLoads           \* the font loads in flight: load callbacks not yet called

meshVars == <<pc, m_NumPoints, pointArrays, currentTickScheme, mobiusStripMesh,
              edgePath, zenMode, preZenState, fastMode, hourNumbersGroup>>

clockVars == <<indicatorShapes, hourSphere, lastUpdate, clock>>

historyVars == <<visited, travelled>>

sceneVars == <<minuteSphere, secondSphere, mobiusGroup, unreleased, sceneLog>>

frameVars == <<lookups, frameLog, rotation>>

uiVars == <<rotationEnabled, timeStyle, params, fontLoads>>

vars == <<meshVars, clockVars, historyVars, sceneVars, frameVars, uiVars>>

Null == [null |-> TRUE]

\* JavaScript array element k (0-based) of a sequence.
At(arr, k) == arr[k + 1]

(***************************************************************************)
(* generateMobius3dPoints                                                  *)
(***************************************************************************)

\* The angle b*beta + a*(pi/N).
Ang(b, a) == [b |-> b, a |-> a]
AngAdd(x, y) == Ang(x.b + y.b, x.a + y.a)
AngSub(x, y) == Ang(x.b - y.b, x.a - y.a)

\* const beta = Math.asin(m_Ht / (2 * s))
beta == Ang(1, 0)

\* const alpha = m_RotationPerRect * ii, m_RotationPerRect = pi/NRECT
alpha(ii) == Ang(0, ii)

\* const phi = (-Math.PI / 2) + ii * m_Theta, m_Theta = 2*pi/NRECT: the
\* direction (cos phi, sin phi), which has period N in ii.
Phi(N, ii) == ii % N

\* sgn * s * Math.cos(A), as the a with value s*cos(beta + a*pi/N).
SCos(N, sgn, A) ==
    LET a1 == IF A.b = 1 THEN A.a ELSE -A.a
        a2 == IF sgn = 1 THEN a1 ELSE a1 + N
    IN a2 % (2 * N)

\* m_Radius + sgn * s * Math.sin(A), as the a with value
\* m_Radius + s*sin(beta + a*pi/N).
RPlusSSin(N, sgn, A) ==
    LET a1 == IF A.b = 1 THEN A.a ELSE -A.a
        s1 == IF A.b = 1 THEN sgn ELSE -sgn
        a2 == IF s1 = 1 THEN a1 ELSE a1 + N
    IN a2 % (2 * N)

\* new THREE.Vector3(r * Math.cos(phi), r * Math.sin(phi), z)
Vector3(phi, r, z) == [phi |-> phi, r |-> r, z |-> z]

\* m_RectCenter3DPtArray[ii]: radius m_Radius, z = 0
RectCenter(N, ii) == [phi |-> Phi(N, ii)]

\* z1 = s*cos(beta - alpha), r1 = m_Radius - s*sin(beta - alpha)
FrontInnerCorner(N, ii) ==
    Vector3(Phi(N, ii), RPlusSSin(N, -1, AngSub(beta, alpha(ii))),
            SCos(N, 1, AngSub(beta, alpha(ii))))

\* z2 = -s*cos(beta + alpha), r2 = m_Radius - s*sin(beta + alpha)
BackInnerCorner(N, ii) ==
    Vector3(Phi(N, ii), RPlusSSin(N, -1, AngAdd(beta, alpha(ii))),
            SCos(N, -1, AngAdd(beta, alpha(ii))))

\* z3 = s*cos(beta + alpha), r3 = m_Radius + s*sin(beta + alpha)
FrontOuterCorner(N, ii) ==
    Vector3(Phi(N, ii), RPlusSSin(N, 1, AngAdd(beta, alpha(ii))),
            SCos(N, 1, AngAdd(beta, alpha(ii))))

\* z4 = -s*cos(beta - alpha), r4 = m_Radius + s*sin(beta - alpha)
BackOuterCorner(N, ii) ==
    Vector3(Phi(N, ii), RPlusSSin(N, 1, AngSub(beta, alpha(ii))),
            SCos(N, -1, AngSub(beta, alpha(ii))))

\* The point A - (A - B)/3, one third of the way from A to B.
Thirdway(A, B) == [from |-> A, to |-> B]

\* The arrays after the loop of generateMobius3dPoints has run ii = 0..N-1.
generateMobius3dPoints(N) ==
    [ RectCenter  |-> [k \in 1..N |-> RectCenter(N, k - 1)],
      FrontInnerCorner |-> [k \in 1..N |-> FrontInnerCorner(N, k - 1)],
      BackInnerCorner  |-> [k \in 1..N |-> BackInnerCorner(N, k - 1)],
      FrontOuterCorner |-> [k \in 1..N |-> FrontOuterCorner(N, k - 1)],
      BackOuterCorner  |-> [k \in 1..N |-> BackOuterCorner(N, k - 1)],
      ThirdwayFromFrontToBackInner |->
          [k \in 1..N |-> Thirdway(FrontInnerCorner(N, k - 1), BackInnerCorner(N, k - 1))],
      ThirdwayFromBackToFrontInner |->
          [k \in 1..N |-> Thirdway(BackInnerCorner(N, k - 1), FrontInnerCorner(N, k - 1))],
      ThirdwayFromFrontToBackOuter |->
          [k \in 1..N |-> Thirdway(FrontOuterCorner(N, k - 1), BackOuterCorner(N, k - 1))],
      ThirdwayFromBackToFrontOuter |->
          [k \in 1..N |-> Thirdway(BackOuterCorner(N, k - 1), FrontOuterCorner(N, k - 1))] ]

(***************************************************************************)
(* createMobiusStripMesh                                                   *)
(***************************************************************************)

\* A variant of the loop body that pushes the outer corners before the inner.
\* (vertices.push(p.x, p.y, p.z) adds one item of the position attribute,
\* itemSize 3: the three floats are kept together as the point p.)
VertexPushesOuterFirst(pa, i) ==
    << At(pa.FrontOuterCorner, i), At(pa.BackOuterCorner, i),
       At(pa.FrontInnerCorner, i), At(pa.BackInnerCorner, i),
       At(pa.ThirdwayFromFrontToBackInner, i), At(pa.ThirdwayFromBackToFrontInner, i),
       At(pa.ThirdwayFromFrontToBackOuter, i), At(pa.ThirdwayFromBackToFrontOuter, i) >>

\* The body of the first loop: the eight vertices.push(p.x, p.y, p.z) of
\* cross-section i, each adding one item (three floats) to the position
\* attribute.
VertexPushes(pa, i) ==
    << At(pa.FrontInnerCorner, i), At(pa.BackInnerCorner, i),
       At(pa.FrontOuterCorner, i), At(pa.BackOuterCorner, i),
       At(pa.ThirdwayFromFrontToBackInner, i), At(pa.ThirdwayFromBackToFrontInner, i),
       At(pa.ThirdwayFromFrontToBackOuter, i), At(pa.ThirdwayFromBackToFrontOuter, i) >>

\* for (let i = 0; i < m_NumPoints; i++) { vertices.push(...) }
\* (the pushes of lo..hi-1 in order, split in halves to keep the evaluation
\* shallow)
RECURSIVE VertexLoop(_, _, _)
VertexLoop(pa, lo, hi) ==
    IF hi <= lo THEN << >>
    ELSE IF hi = lo + 1 THEN VertexPushes(pa, lo)
    ELSE VertexLoop(pa, lo, (lo + hi) \div 2) \o VertexLoop(pa, (lo + hi) \div 2, hi)

\* A variant that never takes the last-slice branch.
IsLastSliceNever(N, i) == FALSE

\* if (i === m_NumPoints - 1)
IsLastSlice(N, i) == i = N - 1

\* A variant of the last-slice branch that starts from the wrong base.
LastSliceIndicesWrongBase ==
    LET bo2 == 8
    IN [bo2 |-> bo2, fo2 |-> bo2 + 1, bi2 |-> bo2 + 2, fi2 |-> bo2 + 3,
        bo4 |-> 12, fo4 |-> 13, bi4 |-> 14, fi4 |-> 15]

\* The assignments of the last-slice branch ("must reverse the order for
\* last slice due to 180 rotation").
LastSliceIndices ==
    LET bo2 == 0
    IN [bo2 |-> bo2, fo2 |-> bo2 + 1, bi2 |-> bo2 + 2, fi2 |-> bo2 + 3,
        bo4 |-> 4, fo4 |-> 5, bi4 |-> 6, fi4 |-> 7]

\* The sixteen index variables of iteration i of the second loop, as they
\* stand when the triangles are pushed.
SliceIndices(N, i) ==
    LET r1 == i
        r2 == (i + 1) % N
        fi1 == r1 * 8
        fi2 == r2 * 8
        this == [fi1 |-> fi1, bi1 |-> fi1 + 1, fo1 |-> fi1 + 2, bo1 |-> fi1 + 3,
                 fi3 |-> fi1 + 4, bi3 |-> fi1 + 5, fo3 |-> fi1 + 6, bo3 |-> fi1 + 7]
        next == [fi2 |-> fi2, bi2 |-> fi2 + 1, fo2 |-> fi2 + 2, bo2 |-> fi2 + 3,
                 fi4 |-> fi2 + 4, bi4 |-> fi2 + 5, fo4 |-> fi2 + 6, bo4 |-> fi2 + 7]
    IN this @@ (IF IsLastSlice(N, i) THEN LastSliceIndices ELSE next)

\* A variant of the pushes whose second front-edge triangle is wound the
\* other way round.
TrianglePushesFlipped(v) ==
    << v.fi2, v.fi3, v.fi1,   v.fi2, v.fi4, v.fi3,
       v.fo1, v.fo3, v.fo2,   v.fo4, v.fo2, v.fo3,
       v.fo1, v.fi2, v.fi1,   v.fo2, v.fo1, v.fi2,
       v.bi4, v.bi1, v.bi3,   v.bi4, v.bi2, v.bi1,
       v.bo4, v.bo3, v.bo1,   v.bo4, v.bo1, v.bo2,
       v.bi2, v.bo1, v.bi1,   v.bi2, v.bo2, v.bo1,
       v.fi4, v.bi3, v.fi3,   v.fi4, v.bi4, v.bi3,
       v.fo4, v.fo3, v.bo3,   v.fo4, v.bo3, v.bo4 >>

\* A variant of the pushes without the two tick outer-face triangles.
TrianglePushesNoTickOuter(v) ==
    << v.fi2, v.fi3, v.fi1,   v.fi2, v.fi4, v.fi3,
       v.fo1, v.fo3, v.fo2,   v.fo4, v.fo2, v.fo3,
       v.fo1, v.fi2, v.fi1,   v.fo2, v.fi2, v.fo1,
       v.bi4, v.bi1, v.bi3,   v.bi4, v.bi2, v.bi1,
       v.bo4, v.bo3, v.bo1,   v.bo4, v.bo1, v.bo2,
       v.bi2, v.bo1, v.bi1,   v.bi2, v.bo2, v.bo1,
       v.fi4, v.bi3, v.fi3,   v.fi4, v.bi4, v.bi3 >>

\* The sixteen indices.push(a, b, c) of one iteration, in order.
TrianglePushes(v) ==
    << v.fi2, v.fi3, v.fi1,   v.fi2, v.fi4, v.fi3,      \* inner face
       v.fo1, v.fo3, v.fo2,   v.fo4, v.fo2, v.fo3,      \* outer face
       v.fo1, v.fi2, v.fi1,   v.fo2, v.fi2, v.fo1,      \* front edge face
       v.bi4, v.bi1, v.bi3,   v.bi4, v.bi2, v.bi1,      \* inner face
       v.bo4, v.bo3, v.bo1,   v.bo4, v.bo1, v.bo2,      \* outer face
       v.bi2, v.bo1, v.bi1,   v.bi2, v.bo2, v.bo1,      \* back edge face
       v.fi4, v.bi3, v.fi3,   v.fi4, v.bi4, v.bi3,      \* tick inner face (thirdway)
       v.fo4, v.fo3, v.bo3,   v.fo4, v.bo3, v.bo4 >>    \* tick outer face (thirdway)

\* for (let i = 0; i < m_NumPoints; i++) { ... indices.push(...) }
RECURSIVE IndexLoop(_, _, _)
IndexLoop(N, lo, hi) ==
    IF hi <= lo THEN << >>
    ELSE IF hi = lo + 1 THEN TrianglePushes(SliceIndices(N, lo))
    ELSE IndexLoop(N, lo, (lo + hi) \div 2) \o IndexLoop(N, (lo + hi) \div 2, hi)

indicesPerSegment == 48
indicesOuterThirds == 36
indicesMiddleThird == 12

\* A variant of the switch in which the standard scheme colours the middle
\* third on hour ticks only.
TickMaterialsNoMinuteTick(scheme, i) ==
    LET isHourTick == (i % 30 = 0)
        hourIndex == i \div 30
        minuteIndex == i \div 6
        stripe == IF hourIndex % 2 = 0 THEN 0 ELSE 2
    IN CASE scheme = "minimal" ->
               [matOuter |-> IF isHourTick THEN 1 ELSE 0,
                matMiddle |-> IF isHourTick THEN 1 ELSE 0]
         [] scheme = "standard" ->
               [matOuter |-> IF isHourTick THEN 1 ELSE 0,
                matMiddle |-> IF isHourTick THEN 1 ELSE 0]
         [] scheme = "alternating" ->
               [matOuter |-> stripe, matMiddle |-> stripe]
         [] scheme = "alternating_ticks" ->
               [matOuter |-> stripe,
                matMiddle |-> IF minuteIndex % 2 = 0 THEN 2 ELSE 0]
         [] OTHER -> [matOuter |-> 0, matMiddle |-> 0]

\* let matOuter = 0; let matMiddle = 0; switch (currentTickScheme) { ... }
TickMaterials(scheme, i) ==
    LET isHourTick == (i % 30 = 0)
        isMinuteTick == (i % 6 = 0)
        hourIndex == i \div 30
        minuteIndex == i \div 6
    IN CASE scheme = "minimal" ->
               [matOuter |-> IF isHourTick THEN 1 ELSE 0,
                matMiddle |-> IF isHourTick THEN 1 ELSE 0]
         [] scheme = "standard" ->
               [matOuter |-> IF isHourTick THEN 1 ELSE 0,
                matMiddle |-> IF isHourTick \/ isMinuteTick THEN 1 ELSE 0]
         [] scheme = "alternating" ->
               LET matOuter == IF hourIndex % 2 = 0 THEN 0 ELSE 2
               IN [matOuter |-> matOuter, matMiddle |-> matOuter]
         [] scheme = "alternating_ticks" ->
               [matOuter |-> IF hourIndex % 2 = 0 THEN 0 ELSE 2,
                matMiddle |-> IF minuteIndex % 2 = 0 THEN 2 ELSE 0]
         [] OTHER -> [matOuter |-> 0, matMiddle |-> 0]

\* geometry.addGroup(start, count, materialIndex)
Group(start, count, materialIndex) ==
    [start |-> start, count |-> count, materialIndex |-> materialIndex]

\* A variant of the two addGroup calls whose middle group starts where the
\* outer group starts.
AddGroupsOverlapping(scheme, i) ==
    LET m == TickMaterials(scheme, i)
    IN << Group(i * indicesPerSegment, indicesOuterThirds, m.matOuter),
          Group(i * indicesPerSegment, indicesMiddleThird, m.matMiddle) >>

\* The two addGroup calls of iteration i of the third loop.
AddGroups(scheme, i) ==
    LET m == TickMaterials(scheme, i)
    IN << Group(i * indicesPerSegment, indicesOuterThirds, m.matOuter),
          Group(i * indicesPerSegment + indicesOuterThirds, indicesMiddleThird, m.matMiddle) >>

\* for (let i = 0; i < m_NumPoints; i++) { ... geometry.addGroup(...) }
RECURSIVE GroupLoop(_, _, _)
GroupLoop(scheme, lo, hi) ==
    IF hi <= lo THEN << >>
    ELSE IF hi = lo + 1 THEN AddGroups(scheme, lo)
    ELSE GroupLoop(scheme, lo, (lo + hi) \div 2) \o GroupLoop(scheme, (lo + hi) \div 2, hi)

\* The mesh createMobiusStripMesh builds and puts in mobiusStripMesh: the
\* position attribute (flat, itemSize 3), the index and the groups.
createMobiusStripMesh(N, pa, scheme) ==
    [ vertices |-> VertexLoop(pa, 0, N),
      indices  |-> IndexLoop(N, 0, N),
      groups   |-> GroupLoop(scheme, 0, N) ]

(***************************************************************************)
(* Time.  The wall clock is read in ticks of 100/TimeRes milliseconds;     *)
(* hours, minutes and seconds are exact integers in the units below.       *)
(***************************************************************************)

\* Ticks per 100 ms.
TimeRes == 1

TicksPerSecond == 10 * TimeRes
TicksPerMinute == 60 * TicksPerSecond
TicksPerHour == 60 * TicksPerMinute
TicksPerDay == 24 * TicksPerHour

\* An hour value h is kept as the integer h * HourUnit, a minute value m as
\* m * TicksPerMinute, a seconds value as ticks.
HourUnit == TicksPerHour

\* JavaScript a % m: the remainder has the sign of the dividend.
JsRem(a, m) == IF a >= 0 THEN a % m ELSE -((-a) % m)

\* Math.round(h) of an hour value: floor(h + 0.5).
RoundHour(h) == ((h + HourUnit \div 2) \div HourUnit) * HourUnit

\* A path index x is kept as the integer x * PathUnit.
PathUnit == 12 * HourUnit

\* A variant of the mapping that takes the remainder once, without the
\* shift that makes it non-negative.
PathIndexFloatOneRem(N, hour24) ==
    JsRem(6 * HourUnit * N - hour24 * N, 2 * N * PathUnit)

\* A variant of the mapping that covers the edge path in 12 hours.
PathIndexFloatTwelve(N, hour24) ==
    JsRem(JsRem(6 * HourUnit * N - 2 * hour24 * N, 2 * N * PathUnit) + 2 * N * PathUnit,
          2 * N * PathUnit)

\* hourProgress = hour24 / 24;
\* pathIndexFloat = ((NRECT/2 - hourProgress*(2*NRECT)) % (2*NRECT) + 2*NRECT) % (2*NRECT)
\* times PathUnit: (N/2)*PathUnit = 6*HourUnit*N, (hour24/24)*2N*PathUnit = hour24*N.
PathIndexFloat(N, hour24) ==
    JsRem(JsRem(6 * HourUnit * N - hour24 * N, 2 * N * PathUnit) + 2 * N * PathUnit,
          2 * N * PathUnit)

\* index1 = Math.floor(pathIndexFloat); index2 = (index1 + 1) % (2*NRECT);
\* fraction = pathIndexFloat - index1
HourToPath(N, hour24) ==
    LET pathIndexFloat == PathIndexFloat(N, hour24)
        index1 == pathIndexFloat \div PathUnit
    IN [index1 |-> index1,
        index2 |-> (index1 + 1) % (2 * N),
        fraction |-> pathIndexFloat - index1 * PathUnit]

\* A variant of fast mode whose pause window excludes its two ends.
ClockValuesOpenWindow(t, fast, shapes) ==
    LET sec60 == t % TicksPerMinute
        min60 == ((t % TicksPerHour) \div TicksPerMinute) * TicksPerMinute + sec60
        rawFastHour24 == 24 * 60 * sec60
        fractionalHour == JsRem(rawFastHour24, HourUnit)
        minutesWithinHour60 ==
            IF 2 * fractionalHour < HourUnit THEN fractionalHour * 60
            ELSE (HourUnit - fractionalHour) * 60
        rawHourFrac == rawFastHour24 - (rawFastHour24 \div HourUnit) * HourUnit
    IN IF fast /\ shapes.hours = "outer-ring"
       THEN [sec60 |-> sec60,
             hour24 |-> IF minutesWithinHour60 < 12 * HourUnit
                        THEN RoundHour(rawFastHour24) ELSE rawFastHour24,
             min60 |-> rawHourFrac]
       ELSE IF fast
       THEN [sec60 |-> sec60, hour24 |-> rawFastHour24, min60 |-> rawHourFrac]
       ELSE [sec60 |-> sec60, hour24 |-> (t \div TicksPerHour) * HourUnit + min60,
             min60 |-> min60]

\* A variant of fast mode that takes the minute value from the paused hour.
ClockValuesMinuteOfPausedHour(t, fast, shapes) ==
    LET sec60 == t % TicksPerMinute
        min60 == ((t % TicksPerHour) \div TicksPerMinute) * TicksPerMinute + sec60
        rawFastHour24 == 24 * 60 * sec60
        fractionalHour == JsRem(rawFastHour24, HourUnit)
        minutesWithinHour60 ==
            IF 2 * fractionalHour < HourUnit THEN fractionalHour * 60
            ELSE (HourUnit - fractionalHour) * 60
        hour24 == IF minutesWithinHour60 <= 12 * HourUnit
                  THEN RoundHour(rawFastHour24) ELSE rawFastHour24
    IN IF fast /\ shapes.hours = "outer-ring"
       THEN [sec60 |-> sec60, hour24 |-> hour24,
             min60 |-> hour24 - (hour24 \div HourUnit) * HourUnit]
       ELSE IF fast
       THEN [sec60 |-> sec60, hour24 |-> rawFastHour24,
             min60 |-> rawFastHour24 - (rawFastHour24 \div HourUnit) * HourUnit]
       ELSE [sec60 |-> sec60, hour24 |-> (t \div TicksPerHour) * HourUnit + min60,
             min60 |-> min60]

\* The hour and minute values updateClock works with at wall clock t:
\* the wall clock's in normal mode, the compressed ones in fast mode (paused
\* at the nearest hour within 12 fast minutes of it when the hours shape is
\* outer-ring).
ClockValues(t, fast, shapes) ==
    LET iHour24 == t \div TicksPerHour
        iMin60 == (t % TicksPerHour) \div TicksPerMinute
        sec60 == t % TicksPerMinute
        min60 == iMin60 * TicksPerMinute + sec60
        hour24 == iHour24 * HourUnit + min60
        rawFastHour24 == 24 * 60 * sec60      \* (24/60) * sec60 hours, in HourUnit
        fractionalHour == JsRem(rawFastHour24, HourUnit)
        minutesWithinHour60 ==                 \* minutesWithinHour * HourUnit
            IF 2 * fractionalHour < HourUnit THEN fractionalHour * 60
            ELSE (HourUnit - fractionalHour) * 60
        rawHourFrac == rawFastHour24 - (rawFastHour24 \div HourUnit) * HourUnit
    IN IF fast /\ shapes.hours = "outer-ring"
       THEN [sec60 |-> sec60,
             hour24 |-> IF minutesWithinHour60 <= 12 * HourUnit
                        THEN RoundHour(rawFastHour24) ELSE rawFastHour24,
             min60 |-> rawHourFrac]
       ELSE IF fast
       THEN [sec60 |-> sec60, hour24 |-> rawFastHour24, min60 |-> rawHourFrac]
       ELSE [sec60 |-> sec60, hour24 |-> hour24, min60 |-> min60]

\* position.lerpVectors(p1, p2, fraction)
LerpVectors(p1, p2, fraction) == [p1 |-> p1, p2 |-> p2, fraction |-> fraction]

\* edgePath[index]: undefined (Null) outside the array.
EdgePathAt(path, index) == IF index + 1 \in DOMAIN path THEN path[index + 1] ELSE Null

\* One lookup arr[index] into an array of the given length.
Lookup(array, index, length) == [array |-> array, index |-> index, length |-> length]

\* One full turn of the spin, in the unit of rotationAngle: rotationAngle
\* counts half ticks of a turn, so that one turn per 2 seconds is one unit
\* per tick.
SpinTurn == 2 * TicksPerSecond

\* A variant whose spin window excludes the minute before and the minute
\* after the hour themselves.
OuterRingSpinOpenWindow(hour24, sec60, fast, shape, placed) ==
    LET fractionalHour == JsRem(hour24, HourUnit)
        minutesWithinHour60 ==
            IF 2 * fractionalHour < HourUnit THEN fractionalHour * 60
            ELSE (HourUnit - fractionalHour) * 60
    IN IF placed /\ shape = "outer-ring" /\ minutesWithinHour60 < HourUnit
       THEN [applied |-> TRUE, rotationAngle |-> IF fast THEN 2 * sec60 ELSE sec60]
       ELSE [applied |-> FALSE, rotationAngle |-> 0]

\* A variant that spins in fast mode at the speed of normal mode.
OuterRingSpinSameSpeed(hour24, sec60, fast, shape, placed) ==
    LET fractionalHour == JsRem(hour24, HourUnit)
        minutesWithinHour60 ==
            IF 2 * fractionalHour < HourUnit THEN fractionalHour * 60
            ELSE (HourUnit - fractionalHour) * 60
    IN IF placed /\ shape = "outer-ring" /\ minutesWithinHour60 <= HourUnit
       THEN [applied |-> TRUE, rotationAngle |-> sec60]
       ELSE [applied |-> FALSE, rotationAngle |-> 0]

\* The spin of a placed outer ring about dirOutward: applied when the hour
\* value is within 1 minute of a whole hour (minutesWithinHour <= 1), by
\* rotationAngle = currentSeconds * 2 * PI in fast mode and
\* (currentSeconds / 2) * 2 * PI otherwise, in the unit of SpinTurn.
OuterRingSpin(hour24, sec60, fast, shape, placed) ==
    LET fractionalHour == JsRem(hour24, HourUnit)
        minutesWithinHour60 ==                 \* minutesWithinHour * HourUnit
            IF 2 * fractionalHour < HourUnit THEN fractionalHour * 60
            ELSE (HourUnit - fractionalHour) * 60
    IN IF placed /\ shape = "outer-ring" /\ minutesWithinHour60 <= HourUnit
       THEN [applied |-> TRUE, rotationAngle |-> IF fast THEN 2 * sec60 ELSE sec60]
       ELSE [applied |-> FALSE, rotationAngle |-> 0]

\* updateClock() at wall clock t with the globals as given: its locals
\* (with the fast mode flag and the hours shape it read, and the spin it
\* gave the outer ring), the hour indicator it leaves, placed between edgePath[index1] and edgePath[index2]
\* when the indicator and both points exist, and the lookups it made into
\* edgePath and, for the two ring shapes of a placed hour indicator, into
\* m_RectCenter3DPtArray at index % m_NumPoints.
UpdateClockAt(t, fast, shapes, path, N, sphere) ==
    LET v == ClockValues(t, fast, shapes)
        hp == HourToPath(N, v.hour24)
        p1 == EdgePathAt(path, hp.index1)
        p2 == EdgePathAt(path, hp.index2)
        placed == sphere # Null /\ p1 # Null /\ p2 # Null
    IN [locals |-> v @@ hp @@ [fastMode |-> fast, hoursShape |-> shapes.hours,
                               spin |-> OuterRingSpin(v.hour24, v.sec60, fast,
                                                      shapes.hours, placed)],
        hourSphere |-> IF placed
                       THEN [sphere EXCEPT !.position = LerpVectors(p1, p2, hp.fraction)]
                       ELSE sphere,
        lookups |-> {Lookup("edgePath", hp.index1, Len(path)),
                     Lookup("edgePath", hp.index2, Len(path))}
                    \cup (IF placed /\ shapes.hours \in {"outer-ring", "ring"}
                          THEN {Lookup("m_RectCenter3DPtArray", hp.index1 % N, N),
                                Lookup("m_RectCenter3DPtArray", hp.index2 % N, N)}
                          ELSE {}),
        placed |-> placed]

\* The locals of updateClock() at wall clock t.
UpdateLocals(t) ==
    UpdateClockAt(t, fastMode', indicatorShapes', edgePath', m_NumPoints, hourSphere).locals

\* updateClock() at wall clock t, called by a handler that leaves the hour
\* indicator's mesh in place, in the state the handler has produced so far
\* (primed).
updateClock(t) ==
    LET u == UpdateClockAt(t, fastMode', indicatorShapes', edgePath', m_NumPoints, hourSphere)
    IN /\ lastUpdate' = u.locals
       /\ hourSphere' = u.hourSphere
       /\ lookups' = u.lookups

(***************************************************************************)
(* The scene group: the meshes attached to it and the resources released   *)
(***************************************************************************)

\* The kinds of object the scene group holds.
Kinds == {"strip", "hours", "minutes", "seconds", "labels"}

\* The bound of the count of unreleased resources of one kind.
MaxUnreleased == 2

SceneOp(op, kind) == [op |-> op, kind |-> kind]

\* createMobiusStripMesh(): an existing mesh is removed and its geometry and
\* materials are disposed, then the new mesh is added.
StripSceneOps(old) ==
    (IF old # Null
     THEN << SceneOp("remove", "strip"), SceneOp("dispose geometry", "strip"),
             SceneOp("dispose material", "strip") >>
     ELSE << >>) \o << SceneOp("add", "strip") >>

\* setIndicatorShape(type, ...): an existing mesh of the indicator is removed
\* and its geometry is disposed, then the new mesh, with a new material, is
\* added.
IndicatorSceneOps(old, type) ==
    (IF old # Null
     THEN << SceneOp("remove", type), SceneOp("dispose geometry", type) >>
     ELSE << >>) \o << SceneOp("add", type) >>

\* createHourNumbers(): an existing labels group is removed, a new one added.
LabelsSceneOps(old) ==
    (IF old # Null THEN << SceneOp("remove", "labels") >> ELSE << >>)
    \o << SceneOp("add", "labels") >>

\* The number of operations op on kind in a sequence of scene operations.
CountOps(ops, op, kind) ==
    Cardinality({k \in DOMAIN ops : ops[k] = SceneOp(op, kind)})

\* The scene group after the operations.
GroupAfter(group, ops) ==
    [kind \in Kinds |->
        group[kind] + CountOps(ops, "add", kind) - CountOps(ops, "remove", kind)]

\* The unreleased resources after the operations: every removed mesh leaves
\* one geometry and one material (the strip: its materials) to dispose.
UnreleasedAfter(u, ops) ==
    [kind \in Kinds \ {"labels"} |->
        [geometry |-> u[kind].geometry + CountOps(ops, "remove", kind)
                          - CountOps(ops, "dispose geometry", kind),
         material |-> u[kind].material + CountOps(ops, "remove", kind)
                          - CountOps(ops, "dispose material", kind)]]

\* The geometry setIndicatorShape builds for a shape of an indicator;
\* "undefined" where no branch assigns it.
ShapeGeometry(type, shape) ==
    IF shape = "disc" THEN "CylinderGeometry"
    ELSE IF shape \in {"ring", "outer-ring"}
    THEN IF type = "hours"
         THEN (IF shape = "outer-ring" THEN "TorusGeometry(0.4, 0.13)" ELSE "TorusGeometry")
         ELSE IF type = "minutes" THEN "TorusGeometry"
         ELSE "undefined"
    ELSE "SphereGeometry"

\* The position of a new object.
Origin == [x |-> 0, y |-> 0, z |-> 0]

\* new THREE.Mesh(geometry, material), at the origin.
Mesh(geometry) == [geometry |-> geometry, position |-> Origin]

(***************************************************************************)
(* The program: script load, init(), the frames and the handlers of the    *)
(* controls                                                                *)
(***************************************************************************)

\* The wall clock values a run may start at.
StartClocks == {0, 7 * TicksPerHour + 31 * TicksPerMinute + 59 * TicksPerSecond}

\* The bound of the rotation angle, in increments.
MaxRotation == 3

\* The bound of the font loads in flight.
MaxFontLoads == 3

\* The text of the label of hour h: hourNumStr (the number and the digits
\* it is padded to) and suffixStr.
HourText(h, style) ==
    IF style = "24"
    THEN [number |-> IF h = 24 THEN 0 ELSE h, digits |-> 2, suffixStr |-> ""]
    ELSE IF h = 24 THEN [number |-> 12, digits |-> 2, suffixStr |-> "AM"]
    ELSE IF h = 12 THEN [number |-> 12, digits |-> 2, suffixStr |-> "PM"]
    ELSE IF h > 12 THEN [number |-> h - 12, digits |-> IF h - 12 > 9 THEN 2 ELSE 1,
                         suffixStr |-> "PM"]
    ELSE [number |-> h, digits |-> IF h > 9 THEN 2 ELSE 1, suffixStr |-> "AM"]

\* A variant that anchors the labels a quarter of an hour further.
LabelIndexShifted(h) == (JsRem(173 - h * 30, 720) + 720) % 720

\* idx = ((180 - (h * 30)) % 720 + 720) % 720
LabelIndex(h) == (JsRem(180 - h * 30, 720) + 720) % 720

\* The labels the font load callback adds: one for each h of 1..24 in
\* turn, anchored at edgePath[idx]; where edgePath has no point at idx the
\* callback fails and adds no further label.
HourLabels(style, path) ==
    LET failing == {h \in 1..24 : EdgePathAt(path, LabelIndex(h)) = Null}
        last == IF failing = {} THEN 24
                ELSE (CHOOSE h \in failing : \A g \in failing : h <= g) - 1
    IN [h \in 1..last |-> [hour |-> h, text |-> HourText(h, style), idx |-> LabelIndex(h)]]

\* One parameter of the URL hash.
Param(name, value) == [name |-> name, value |-> value]

\* The URL hashes the page is loaded with: none, each documented parameter
\* alone with a value that is not its default, the default time style, the
\* documentation's example, and two shapes together.
HashInputs ==
    {{},
     {Param("timeStyle", "24")},
     {Param("timeStyle", "ampm")},
     {Param("shapeHours", "sphere")},
     {Param("tickScheme", "minimal")},
     {Param("rotation", "true")},
     {Param("showHours", "false")},
     {Param("zen", "true")},
     {Param("timeStyle", "24"), Param("shapeHours", "sphere"), Param("zen", "true")},
     {Param("shapeMinutes", "disc"), Param("shapeSeconds", "disc")}}

\* params.includes("name=value")
Includes(hash, name, value) == Param(name, value) \in hash

\* The state when the script has run up to the call of init(): the point
\* arrays are generated, the globals hold their initial values.
Init ==
    /\ pc = "load"
    /\ m_NumPoints \in NValues
    /\ pointArrays = generateMobius3dPoints(m_NumPoints)
    /\ currentTickScheme = "standard"
    /\ mobiusStripMesh = Null
    /\ edgePath = << >>
    /\ zenMode = FALSE
    /\ preZenState = Null
    /\ fastMode = FALSE
    /\ hourNumbersGroup = Null
    /\ indicatorShapes = [hours |-> "outer-ring", minutes |-> "ring", seconds |-> "sphere"]
    /\ hourSphere = Null
    /\ lastUpdate = Null
    /\ clock \in StartClocks
    /\ visited = {}
    /\ travelled = 0
    /\ minuteSphere = Null
    /\ secondSphere = Null
    /\ mobiusGroup = [kind \in Kinds |-> 0]
    /\ unreleased = [kind \in Kinds \ {"labels"} |-> [geometry |-> 0, material |-> 0]]
    /\ sceneLog = << >>
    /\ lookups = {}
    /\ frameLog = << >>
    /\ rotation = 0
    /\ rotationEnabled = FALSE
    /\ params \in HashInputs
    /\ fontLoads = 0
    /\ timeStyle = (IF Includes(params, "timeStyle", "24") THEN "24" ELSE "ampm")

\* A variant that continues the front-inner corners with the front-outer ones.
EdgePathOfFrontOuter(pa) == pa.FrontInnerCorner \o pa.FrontOuterCorner

\* edgePath = m_FrontInnerCorner3DPtArray.concat(m_BackOuterCorner3DPtArray)
EdgePathOf(pa) == pa.FrontInnerCorner \o pa.BackOuterCorner

\* A variant of the frame that renders first and requests the next frame last.
AnimateStagesRequestLast(fast, rotate, placed) ==
    << "read wall clock" >>
    \o (IF fast THEN << "fast mode transform" >> ELSE << >>)
    \o << "map seconds", "orient seconds", "map minutes", "orient minutes", "map hours" >>
    \o (IF placed THEN << "orient hours" >> ELSE << >>)
    \o << "render" >>
    \o (IF rotate THEN << "increment rotation" >> ELSE << >>)
    \o << "request next frame" >>

\* The stages of animate(), in the order of its statements: it requests the
\* next frame, runs updateClock() (the wall clock, the fast mode transform,
\* the seconds and the minutes indicators, the hour indicator), increments
\* the rotation when it is enabled, and renders.
AnimateStages(fast, rotate, placed) ==
    << "request next frame", "read wall clock" >>
    \o (IF fast THEN << "fast mode transform" >> ELSE << >>)
    \o << "map seconds", "orient seconds", "map minutes", "orient minutes", "map hours" >>
    \o (IF placed THEN << "orient hours" >> ELSE << >>)
    \o (IF rotate THEN << "increment rotation" >> ELSE << >>)
    \o << "render" >>

\* init(): builds the strip mesh, the indicators (createClockHands: three
\* setIndicatorShape calls, whose updateClock() calls find edgePath still
\* empty and leave the hour indicator at the origin), the edge path and the
\* hour labels group (created visible), and runs the first frame, animate().
init ==
    /\ pc = "load"
    /\ LET ops == StripSceneOps(mobiusStripMesh)
                  \o IndicatorSceneOps(hourSphere, "hours")
                  \o IndicatorSceneOps(minuteSphere, "minutes")
                  \o IndicatorSceneOps(secondSphere, "seconds")
                  \o LabelsSceneOps(hourNumbersGroup)
           shapes == [hours |-> "outer-ring", minutes |-> "ring", seconds |-> "sphere"]
           hands == UpdateClockAt(clock, fastMode, shapes, edgePath, m_NumPoints,
                                  Mesh(ShapeGeometry("hours", "outer-ring")))
           frame == UpdateClockAt(clock, fastMode, shapes, EdgePathOf(pointArrays),
                                  m_NumPoints, hands.hourSphere)
       IN /\ mobiusStripMesh' =
                 createMobiusStripMesh(m_NumPoints, pointArrays, currentTickScheme)
          /\ indicatorShapes' = shapes
          /\ minuteSphere' = Mesh(ShapeGeometry("minutes", "ring"))
          /\ secondSphere' = Mesh(ShapeGeometry("seconds", "sphere"))
          /\ edgePath' = EdgePathOf(pointArrays)
          /\ hourNumbersGroup' = [visible |-> TRUE, children |-> << >>]
          /\ mobiusGroup' = GroupAfter(mobiusGroup, ops)
          /\ unreleased' = UnreleasedAfter(unreleased, ops)
          /\ sceneLog' = ops
          /\ hourSphere' = frame.hourSphere
          /\ lastUpdate' = frame.locals
          /\ lookups' = hands.lookups \cup frame.lookups
          /\ frameLog' = AnimateStages(fastMode, rotationEnabled, frame.placed)
    /\ pc' = "running"
    /\ fontLoads' = fontLoads + 1
    /\ UNCHANGED <<m_NumPoints, pointArrays, currentTickScheme, zenMode, preZenState,
                   fastMode, clock, rotation, rotationEnabled, timeStyle, params>>

\* animate() at wall clock t: one frame.
animate(t) ==
    /\ pc = "running"
    /\ rotationEnabled => rotation < MaxRotation
    /\ clock' = t
    /\ UNCHANGED <<meshVars, indicatorShapes, sceneVars, uiVars>>
    /\ updateClock(t)
    /\ rotation' = IF rotationEnabled THEN rotation + 1 ELSE rotation
    /\ frameLog' = AnimateStages(fastMode, rotationEnabled,
                                 UpdateClockAt(t, fastMode, indicatorShapes, edgePath,
                                               m_NumPoints, hourSphere).placed)

\* setTickScheme(scheme), from the tick scheme select.
setTickScheme(scheme) ==
    /\ pc = "running"
    /\ currentTickScheme' = scheme
    /\ mobiusStripMesh' = createMobiusStripMesh(m_NumPoints, pointArrays, scheme)
    /\ LET ops == StripSceneOps(mobiusStripMesh)
       IN /\ mobiusGroup' = GroupAfter(mobiusGroup, ops)
          /\ unreleased' = UnreleasedAfter(unreleased, ops)
          /\ sceneLog' = ops
    /\ UNCHANGED <<pc, m_NumPoints, pointArrays, edgePath, zenMode, preZenState,
                   fastMode, hourNumbersGroup>>
    /\ UNCHANGED <<clockVars, minuteSphere, secondSphere, frameVars, uiVars>>

\* The three indicators.
IndicatorTypes == {"hours", "minutes", "seconds"}

\* The mesh of an indicator.
IndicatorMesh(type) ==
    CASE type = "hours" -> hourSphere
      [] type = "minutes" -> minuteSphere
      [] type = "seconds" -> secondSphere

\* setIndicatorShape(type, shape), from the shape selects: stores the shape,
\* replaces the indicator's mesh and runs updateClock().
setIndicatorShape(type, shape) ==
    /\ pc = "running"
    /\ unreleased[type].material < MaxUnreleased
    /\ indicatorShapes' = [indicatorShapes EXCEPT ![type] = shape]
    /\ LET ops == IndicatorSceneOps(IndicatorMesh(type), type)
           new == Mesh(ShapeGeometry(type, shape))
           u == UpdateClockAt(clock, fastMode, indicatorShapes', edgePath, m_NumPoints,
                              IF type = "hours" THEN new ELSE hourSphere)
       IN /\ mobiusGroup' = GroupAfter(mobiusGroup, ops)
          /\ unreleased' = UnreleasedAfter(unreleased, ops)
          /\ sceneLog' = ops
          /\ hourSphere' = u.hourSphere
          /\ minuteSphere' = IF type = "minutes" THEN new ELSE minuteSphere
          /\ secondSphere' = IF type = "seconds" THEN new ELSE secondSphere
          /\ lastUpdate' = u.locals
          /\ lookups' = u.lookups
    /\ UNCHANGED <<meshVars, clock, frameLog, rotation, uiVars>>

\* A variant of the toggle that leaves the angle where the frames took it.
RotationKept(angle) == angle

\* mobiusGroup.rotation.y = 0
RotationReset(angle) == 0

\* toggleRotation
toggleRotation ==
    /\ pc = "running"
    /\ rotationEnabled' = ~rotationEnabled
    /\ rotation' = RotationReset(rotation)
    /\ UNCHANGED <<meshVars, clockVars, sceneVars, lookups, frameLog, timeStyle, params, fontLoads>>

\* toggleFastMode
toggleFastMode ==
    /\ pc = "running"
    /\ fastMode' = ~fastMode
    /\ UNCHANGED <<pc, m_NumPoints, pointArrays, currentTickScheme, mobiusStripMesh,
                   edgePath, zenMode, preZenState, hourNumbersGroup>>
    /\ UNCHANGED <<clockVars, sceneVars, frameVars, uiVars>>

\* toggleHours
toggleHours ==
    /\ pc = "running"
    /\ hourNumbersGroup # Null
    /\ hourNumbersGroup' = [hourNumbersGroup EXCEPT !.visible = ~hourNumbersGroup.visible]
    /\ UNCHANGED <<pc, m_NumPoints, pointArrays, currentTickScheme, mobiusStripMesh,
                   edgePath, zenMode, preZenState, fastMode>>
    /\ UNCHANGED <<clockVars, sceneVars, frameVars, uiVars>>

\* The change handler of the time style select: stores the style and runs
\* createHourNumbers(), which replaces the labels group by a visible one.
setTimeStyle(style) ==
    /\ pc = "running"
    /\ fontLoads < MaxFontLoads
    /\ timeStyle' = style
    /\ fontLoads' = fontLoads + 1
    /\ hourNumbersGroup' = [visible |-> TRUE, children |-> << >>]
    /\ LET ops == LabelsSceneOps(hourNumbersGroup)
       IN /\ mobiusGroup' = GroupAfter(mobiusGroup, ops)
          /\ unreleased' = UnreleasedAfter(unreleased, ops)
          /\ sceneLog' = ops
    /\ UNCHANGED <<pc, m_NumPoints, pointArrays, currentTickScheme, mobiusStripMesh,
                   edgePath, zenMode, preZenState, fastMode>>
    /\ UNCHANGED <<clockVars, minuteSphere, secondSphere, frameVars, rotationEnabled, params>>

\* The font load callback of createHourNumbers(): for h = 1..24 it builds
\* the label of the hour and adds it to hourNumbersGroup, the group the
\* global names when the callback runs.
fontLoaded ==
    /\ pc = "running"
    /\ fontLoads > 0
    /\ fontLoads' = fontLoads - 1
    /\ hourNumbersGroup' =
           [hourNumbersGroup EXCEPT
               !.children = @ \o HourLabels(timeStyle, edgePath)]
    /\ UNCHANGED <<pc, m_NumPoints, pointArrays, currentTickScheme, mobiusStripMesh,
                   edgePath, zenMode, preZenState, fastMode>>
    /\ UNCHANGED <<clockVars, sceneVars, frameVars, rotationEnabled, timeStyle, params>>

\* A variant of the snapshot that records fast mode as off.
SavedStateFastOff(group, scheme, fast) ==
    [hoursVisible |-> IF group # Null THEN group.visible ELSE FALSE,
     tickScheme |-> scheme,
     fastMode |-> FALSE]

\* preZenState = { hoursVisible: ..., tickScheme: ..., fastMode: ... }: the
\* snapshot taken on entering zen mode (of the fields the model keeps).
SavedState(group, scheme, fast) ==
    [hoursVisible |-> IF group # Null THEN group.visible ELSE FALSE,
     tickScheme |-> scheme,
     fastMode |-> fast]

\* A variant of the tick scheme of zen mode.
ZenTickSchemeStandard == "standard"

\* setTickScheme('minimal') on entering zen mode.
ZenTickScheme == "minimal"

\* toggleZenMode: entering saves the snapshot and applies the zen settings,
\* leaving restores the snapshot; both rebuild the mesh through setTickScheme.
toggleZenMode ==
    /\ pc = "running"
    /\ zenMode' = ~zenMode
    /\ IF ~zenMode
       THEN /\ preZenState' = SavedState(hourNumbersGroup, currentTickScheme, fastMode)
            /\ hourNumbersGroup' = IF hourNumbersGroup # Null
                                   THEN [hourNumbersGroup EXCEPT !.visible = FALSE]
                                   ELSE hourNumbersGroup
            /\ currentTickScheme' = ZenTickScheme
            /\ mobiusStripMesh' =
                   createMobiusStripMesh(m_NumPoints, pointArrays, ZenTickScheme)
            /\ fastMode' = FALSE
       ELSE /\ hourNumbersGroup' = IF hourNumbersGroup # Null
                                   THEN [hourNumbersGroup EXCEPT !.visible = preZenState.hoursVisible]
                                   ELSE hourNumbersGroup
            /\ currentTickScheme' = preZenState.tickScheme
            /\ mobiusStripMesh' = createMobiusStripMesh(m_NumPoints, pointArrays,
                                                        preZenState.tickScheme)
            /\ fastMode' = preZenState.fastMode
            /\ UNCHANGED preZenState
    /\ LET ops == StripSceneOps(mobiusStripMesh)
       IN /\ mobiusGroup' = GroupAfter(mobiusGroup, ops)
          /\ unreleased' = UnreleasedAfter(unreleased, ops)
          /\ sceneLog' = ops
    /\ UNCHANGED <<pc, m_NumPoints, pointArrays, edgePath>>
    /\ UNCHANGED <<clockVars, minuteSphere, secondSphere, frameVars, uiVars>>

\* The wall clock values the frames of Spec and SpecClock are sampled at:
\* every hour of the day, at the start, middle and last tick of a minute at
\* the start, middle and end of the hour.
SampleTimes ==
    { h * TicksPerHour + m * TicksPerMinute + s
        : h \in 0..23, m \in {0, 30, 59},
          s \in {0, TicksPerMinute \div 2, TicksPerMinute - 1} }

\* The values the tick scheme select and the shape selects may deliver: the
\* recognized ones and one that no branch of the code names.
SchemeInputs == TickSchemes \cup {"unrecognized"}
ShapeInputs == {"sphere", "disc", "ring", "outer-ring", "unrecognized"}

\* The program: the base actions leave the history variables alone.
Next ==
    \/ init /\ UNCHANGED historyVars
    \/ \E t \in SampleTimes : animate(t) /\ UNCHANGED historyVars
    \/ \E scheme \in SchemeInputs : setTickScheme(scheme) /\ UNCHANGED historyVars
    \/ toggleFastMode /\ UNCHANGED historyVars
    \/ toggleHours /\ UNCHANGED historyVars
    \/ toggleZenMode /\ UNCHANGED historyVars
    \/ toggleRotation /\ UNCHANGED historyVars
    \/ \E style \in {"ampm", "24"} : setTimeStyle(style) /\ UNCHANGED historyVars
    \/ fontLoaded /\ UNCHANGED historyVars
    \/ \E type \in IndicatorTypes, shape \in ShapeInputs :
           setIndicatorShape(type, shape) /\ UNCHANGED historyVars

Spec == Init /\ [][Next]_vars

(***************************************************************************)
(* SpecMesh: the handlers that build the strip mesh, for every segment     *)
(* count of NValues.                                                       *)
(***************************************************************************)

InitMesh == Init /\ clock = 0 /\ params = {}

NextMesh ==
    \/ init /\ UNCHANGED historyVars
    \/ \E scheme \in TickSchemes : setTickScheme(scheme) /\ UNCHANGED historyVars
    \/ toggleZenMode /\ UNCHANGED historyVars

SpecMesh == InitMesh /\ [][NextMesh]_vars

(***************************************************************************)
(* SpecClock: the program as written (NRECT cross-sections), its frames    *)
(* at the sample times one after the other, in normal and in fast mode.    *)
(***************************************************************************)

InitClock == Init /\ m_NumPoints = NRECT /\ clock = 0 /\ params = {}

\* The first sample time after wall clock c, the first of the next day
\* after the last.
NextSample(c) ==
    LET later == {t \in SampleTimes : t > c}
        from == IF later = {} THEN SampleTimes ELSE later
    IN CHOOSE t \in from : \A u \in from : t <= u

NextClock ==
    \/ init /\ UNCHANGED historyVars
    \/ animate(NextSample(clock)) /\ UNCHANGED historyVars
    \/ toggleFastMode /\ UNCHANGED historyVars

SpecClock == InitClock /\ [][NextClock]_vars

(***************************************************************************)
(* SpecDay: the program as written, in normal mode, one frame per minute   *)
(* of wall clock through one day; the history variables record where the   *)
(* hour indicator has been and for how long it has travelled.              *)
(***************************************************************************)

InitDay == Init /\ params = {}

\* The wall clock time between two frames of the day: at most the time
\* the hour indicator stays at one index, so that no index is skipped.
FrameStep == IF m_NumPoints = NRECT THEN TicksPerMinute ELSE 30 * TicksPerMinute

initDay ==
    /\ init
    /\ visited' = {lastUpdate'.index1}
    /\ travelled' = 0

dayFrame ==
    /\ travelled < TicksPerDay
    /\ animate((clock + FrameStep) % TicksPerDay)
    /\ visited' = visited \cup {lastUpdate'.index1}
    /\ travelled' = travelled + FrameStep

NextDay == initDay \/ dayFrame

SpecDay == InitDay /\ [][NextDay]_vars

(***************************************************************************)
(* SpecFast: MaxN cross-sections, a frame every tick through the seconds   *)
(* of a minute, in normal and in fast mode, with every shape of the hour   *)
(* indicator.                                                              *)
(***************************************************************************)

InitFast == Init /\ m_NumPoints = MaxN /\ params = {}

\* The next frame, one tick later, up to the last tick of the minute.
fastFrame ==
    /\ clock % TicksPerMinute < TicksPerMinute - 1
    /\ animate(clock + 1)

NextFast ==
    \/ init /\ UNCHANGED historyVars
    \/ fastFrame /\ UNCHANGED historyVars
    \/ toggleFastMode /\ UNCHANGED historyVars
    \/ \E shape \in ShapeInputs : setIndicatorShape("hours", shape) /\ UNCHANGED historyVars

SpecFast == InitFast /\ [][NextFast]_vars

(***************************************************************************)
(* SpecZen: MaxN cross-sections; zen mode and the settings that can change *)
(* while it is active.                                                     *)
(***************************************************************************)

InitZen ==
    Init /\ m_NumPoints = MaxN /\ clock = 0 /\ params \in {{}, {Param("timeStyle", "24")}}

NextZen ==
    \/ init /\ UNCHANGED historyVars
    \/ toggleZenMode /\ UNCHANGED historyVars
    \/ toggleFastMode /\ UNCHANGED historyVars
    \/ toggleHours /\ UNCHANGED historyVars
    \/ \E scheme \in TickSchemes : setTickScheme(scheme) /\ UNCHANGED historyVars
    \/ \E style \in {"ampm", "24"} : setTimeStyle(style) /\ UNCHANGED historyVars
    \/ fontLoaded /\ UNCHANGED historyVars

SpecZen == InitZen /\ [][NextZen]_vars

(***************************************************************************)
(* SpecScene: MaxN cross-sections; the handlers that replace meshes of the *)
(* scene, with every value the selects may deliver.                        *)
(***************************************************************************)

InitScene == Init /\ m_NumPoints = MaxN /\ clock = 0 /\ params = {}

NextScene ==
    \/ init /\ UNCHANGED historyVars
    \/ \E scheme \in SchemeInputs : setTickScheme(scheme) /\ UNCHANGED historyVars
    \/ \E type \in IndicatorTypes, shape \in ShapeInputs :
           setIndicatorShape(type, shape) /\ UNCHANGED historyVars

SpecScene == InitScene /\ [][NextScene]_vars

(***************************************************************************)
(* SpecFrame: MaxN cross-sections; a frame every second through a minute,  *)
(* with fast mode and the rotation switched on and off.                    *)
(***************************************************************************)

InitFrame == Init /\ m_NumPoints = MaxN /\ params = {}

\* The next frame, one second later, up to the last second of the minute.
secondFrame ==
    /\ clock % TicksPerMinute < TicksPerMinute - TicksPerSecond
    /\ animate(clock + TicksPerSecond)

NextFrame ==
    \/ init /\ UNCHANGED historyVars
    \/ secondFrame /\ UNCHANGED historyVars
    \/ toggleFastMode /\ UNCHANGED historyVars
    \/ toggleRotation /\ UNCHANGED historyVars

SpecFrame == InitFrame /\ [][NextFrame]_vars

(***************************************************************************)
(* SpecSpin: MaxN cross-sections; frames at wall clock times around the    *)
(* hour marks and around a pause of fast mode, with fast mode switched on  *)
(* and off and every hours shape.                                          *)
(***************************************************************************)

\* Offsets from a whole hour: at and next to the hour, at and next to one
\* minute after it and one minute before the next, between the hours, and
\* around the seconds 2.0 to 3.0 at which fast mode pauses at hour 1.
SpinOffsets ==
    {0, 1, TicksPerMinute - 1, TicksPerMinute, TicksPerMinute + 1,
     2 * TicksPerSecond - 1, 2 * TicksPerSecond, (5 * TicksPerSecond) \div 2,
     3 * TicksPerSecond, 3 * TicksPerSecond + 1,
     30 * TicksPerMinute,
     59 * TicksPerMinute - 1, 59 * TicksPerMinute, 59 * TicksPerMinute + 1,
     TicksPerHour - 1}

\* The wall clock times of the frames.
SpinClocks == {h * TicksPerHour + d : h \in {0, 7, 23}, d \in SpinOffsets}

InitSpin == Init /\ m_NumPoints = MaxN /\ clock = 0 /\ params = {}

\* A frame at a later wall clock time.
spinFrame == \E t \in SpinClocks : t > clock /\ animate(t)

NextSpin ==
    \/ init /\ UNCHANGED historyVars
    \/ spinFrame /\ UNCHANGED historyVars
    \/ toggleFastMode /\ UNCHANGED historyVars
    \/ \E shape \in ShapeInputs : setIndicatorShape("hours", shape) /\ UNCHANGED historyVars

SpecSpin == InitSpin /\ [][NextSpin]_vars

(***************************************************************************)
(* SpecLoad: MaxN cross-sections; the page loaded with each URL hash of    *)
(* HashInputs, and the handlers of the settings the hash documents.        *)
(***************************************************************************)

InitLoad == Init /\ m_NumPoints = MaxN /\ clock = 0

NextLoad ==
    \/ init /\ UNCHANGED historyVars
    \/ toggleRotation /\ UNCHANGED historyVars
    \/ toggleHours /\ UNCHANGED historyVars
    \/ toggleZenMode /\ UNCHANGED historyVars
    \/ \E style \in {"ampm", "24"} : setTimeStyle(style) /\ UNCHANGED historyVars

SpecLoad == InitLoad /\ [][NextLoad]_vars

(***************************************************************************)
(* SpecLabels: the program as written (NRECT cross-sections); rebuilds of  *)
(* the hour labels interleaved with the completions of the font loads, and *)
(* a frame at every whole hour of the day.                                 *)
(***************************************************************************)

InitLabels == Init /\ m_NumPoints = NRECT /\ clock = 0 /\ params = {}

\* The next frame, at the next whole hour of the day.
hourFrame ==
    /\ clock + TicksPerHour < TicksPerDay
    /\ animate((clock \div TicksPerHour + 1) * TicksPerHour)

NextLabels ==
    \/ init /\ UNCHANGED historyVars
    \/ hourFrame /\ UNCHANGED historyVars
    \/ \E style \in {"ampm", "24"} : setTimeStyle(style) /\ UNCHANGED historyVars
    \/ fontLoaded /\ UNCHANGED historyVars
    \/ toggleHours /\ UNCHANGED historyVars

SpecLabels == InitLabels /\ [][NextLabels]_vars

(***************************************************************************)
(* SpecRotation: MaxN cross-sections; a few frames, the rotation toggle    *)
(* and the other handlers: zen mode, fast mode, a tick scheme, a shape and *)
(* a time style change.                                                    *)
(***************************************************************************)

InitRotation == Init /\ m_NumPoints = MaxN /\ clock = 0 /\ params = {}

\* The bound of the frames.
MaxFrames == 2

\* The next frame, one tick later.
rotationFrame ==
    /\ clock < MaxFrames
    /\ animate(clock + 1)

NextRotation ==
    \/ init /\ UNCHANGED historyVars
    \/ rotationFrame /\ UNCHANGED historyVars
    \/ toggleRotation /\ UNCHANGED historyVars
    \/ toggleZenMode /\ UNCHANGED historyVars
    \/ toggleFastMode /\ UNCHANGED historyVars
    \/ setTickScheme("alternating") /\ UNCHANGED historyVars
    \/ setIndicatorShape("hours", "disc") /\ UNCHANGED historyVars
    \/ setTimeStyle("24") /\ UNCHANGED historyVars

SpecRotation == InitRotation /\ [][NextRotation]_vars

(***************************************************************************)
(* Properties of the strip mesh (SpecMesh)                                 *)
(***************************************************************************)

\* The mesh has been built.
MeshBuilt == mobiusStripMesh # Null

\* Entry e (0-based) of the index buffer.
IndexAt(e) == mobiusStripMesh.indices[e + 1]

\* The positions 1..48, in the pushes of one segment, of each index
\* variable of the next cross-section.
NextSliceSlots ==
    [fi2 |-> {1, 4, 14, 17}, bi2 |-> {23, 31, 34}, fo2 |-> {9, 11, 16}, bo2 |-> {30, 35},
     fi4 |-> {5, 37, 40},    bi4 |-> {19, 22, 41}, fo4 |-> {10, 43, 46}, bo4 |-> {25, 28, 48}]

\* The point category (offset in a cross-section's eight vertices) each of
\* them names.
RawCategory ==
    [fi2 |-> 0, bi2 |-> 1, fo2 |-> 2, bo2 |-> 3, fi4 |-> 4, bi4 |-> 5, fo4 |-> 6, bo4 |-> 7]

\* The rotated set of cross-section 0.
RotatedIndex ==
    [bo2 |-> 0, fo2 |-> 1, bi2 |-> 2, fi2 |-> 3, bo4 |-> 4, fo4 |-> 5, bi4 |-> 6, fi4 |-> 7]

\* C1: in the index buffer, segment N-1 refers to the next cross-section by
\* the rotated set of cross-section 0 (back-outer 0, front-outer 1,
\* back-inner 2, front-inner 3, and 4, 5, 6, 7 for their thirdway points),
\* and every other segment i by the raw indices 8*((i+1) mod N) + k.
C1_WrapPermutation ==
    MeshBuilt =>
        \A i \in 0..(m_NumPoints - 1) :
            \A v \in DOMAIN NextSliceSlots :
                \A pos \in NextSliceSlots[v] :
                    IndexAt(48 * i + pos - 1) =
                        IF i = m_NumPoints - 1 THEN RotatedIndex[v]
                        ELSE 8 * ((i + 1) % m_NumPoints) + RawCategory[v]

\* C1 witness: the mesh of NRECT segments is built and its last segment
\* names the back-outer corner of the next cross-section by index 0.
C1_Witness ==
    /\ MeshBuilt
    /\ m_NumPoints = NRECT
    /\ IndexAt(48 * (NRECT - 1) + 29) = 0
    /\ IndexAt(48 * (NRECT - 2) + 29) = 8 * (NRECT - 1) + 3

\* The triangles of the index buffer, numbered from 0, and their edges in
\* the direction the triangle traverses them.
NumTriangles == Len(mobiusStripMesh.indices) \div 3
Corner(t, k) == IndexAt(3 * t + k)
DirectedEdges ==
    { <<Corner(t, k), Corner(t, (k + 1) % 3)>> : t \in 0..(NumTriangles - 1), k \in 0..2 }

\* C2: the index buffer is a consistently oriented closed surface: no two
\* triangles traverse an edge in the same direction, and every edge a
\* triangle traverses is traversed in the opposite direction by another, so
\* that every undirected edge belongs to exactly two triangles, of opposite
\* directions; across the join of segment N-1 to segment 0 as elsewhere.
C2_NoWindingDiscontinuity ==
    MeshBuilt =>
        /\ Len(mobiusStripMesh.indices) = 3 * NumTriangles
        /\ LET edges == DirectedEdges
           IN /\ Cardinality(edges) = 3 * NumTriangles
              /\ \A e \in edges : e[1] # e[2] /\ <<e[2], e[1]>> \in edges

\* C2 witness: a mesh of three segments whose front edge face crosses the
\* join (front-outer of cross-section 2 to index 3 of cross-section 0) in
\* both directions.
C2_Witness ==
    /\ MeshBuilt
    /\ m_NumPoints = 3
    /\ <<8 * 2 + 2, 3>> \in DirectedEdges
    /\ <<3, 8 * 2 + 2>> \in DirectedEdges

\* C3 as stated: the index buffer has 36*N entries.
C3_Original == MeshBuilt => Len(mobiusStripMesh.indices) = 36 * m_NumPoints

\* C3, amended: the index buffer has exactly 48*N entries: every segment
\* contributes exactly 16 triangles, 12 of the outer thirds (36 indices)
\* and 4 of the middle third (12 indices).
C3_IndexCount ==
    MeshBuilt =>
        /\ Len(mobiusStripMesh.indices) = 48 * m_NumPoints
        /\ NumTriangles = 16 * m_NumPoints
        /\ \A i \in 0..(m_NumPoints - 1) :
               \A e \in 0..47 : IndexAt(48 * i + e) \div 8 \in {i, (i + 1) % m_NumPoints}

\* C3 witness: the mesh of NRECT segments with its 17280 indices.
C3_Witness ==
    /\ MeshBuilt
    /\ m_NumPoints = NRECT
    /\ Len(mobiusStripMesh.indices) = 48 * NRECT
    /\ Len(mobiusStripMesh.indices) # 36 * NRECT

\* The point arrays in the order of the point categories 0..7.
CategoryArrays ==
    << pointArrays.FrontInnerCorner, pointArrays.BackInnerCorner,
       pointArrays.FrontOuterCorner, pointArrays.BackOuterCorner,
       pointArrays.ThirdwayFromFrontToBackInner, pointArrays.ThirdwayFromBackToFrontInner,
       pointArrays.ThirdwayFromFrontToBackOuter, pointArrays.ThirdwayFromBackToFrontOuter >>

\* C4: the vertex buffer holds 8*N points, and the point at index 8*i + k
\* is category k of cross-section i.
C4_VertexLayout ==
    MeshBuilt =>
        /\ Len(mobiusStripMesh.vertices) = 8 * m_NumPoints
        /\ \A i \in 0..(m_NumPoints - 1) :
               \A k \in 0..7 :
                   At(mobiusStripMesh.vertices, 8 * i + k) = At(CategoryArrays[k + 1], i)

\* C4 witness: the mesh of NRECT segments, whose vertex 8*1 + 2 is the
\* front-outer corner of cross-section 1 and no other corner of it.
C4_Witness ==
    /\ MeshBuilt
    /\ m_NumPoints = NRECT
    /\ At(mobiusStripMesh.vertices, 10) = FrontOuterCorner(NRECT, 1)
    /\ At(mobiusStripMesh.vertices, 10) \notin
           {FrontInnerCorner(NRECT, 1), BackInnerCorner(NRECT, 1), BackOuterCorner(NRECT, 1)}

\* C5: every triangle of segment i refers only to vertices of cross-section
\* i and cross-section (i+1) mod N, and to three distinct vertices.
C5_SegmentLocality ==
    MeshBuilt =>
        \A i \in 0..(m_NumPoints - 1) :
            \A t \in (16 * i)..(16 * i + 15) :
                /\ \A k \in 0..2 :
                       /\ Corner(t, k) \in 0..(8 * m_NumPoints - 1)
                       /\ Corner(t, k) \div 8 \in {i, (i + 1) % m_NumPoints}
                /\ Cardinality({Corner(t, 0), Corner(t, 1), Corner(t, 2)}) = 3

\* C5 witness: in a mesh of four segments the first triangle of the last
\* segment joins cross-section 3 to cross-section 0.
C5_Witness ==
    /\ MeshBuilt
    /\ m_NumPoints = 4
    /\ {Corner(16 * 3, k) \div 8 : k \in 0..2} = {0, 3}

\* C6: the mesh has 2*N groups, an outer-thirds group of 36 indices and a
\* middle-third group of 12 indices for every segment; each group starts
\* where the one before it ends, the first at 0 and the last ending at the
\* end of the index buffer, so that the groups are pairwise disjoint and
\* cover every entry exactly once; each is bound to material 0, 1 or 2.
C6_MaterialGroups ==
    MeshBuilt =>
        LET groups == mobiusStripMesh.groups
        IN /\ Len(groups) = 2 * m_NumPoints
           /\ \A i \in 0..(m_NumPoints - 1) :
                  /\ groups[2 * i + 1].count = 36
                  /\ groups[2 * i + 2].count = 12
           /\ groups[1].start = 0
           /\ \A j \in 1..(Len(groups) - 1) :
                  groups[j + 1].start = groups[j].start + groups[j].count
           /\ groups[Len(groups)].start + groups[Len(groups)].count
                  = Len(mobiusStripMesh.indices)
           /\ \A j \in 1..Len(groups) : groups[j].materialIndex \in {0, 1, 2}

\* C6 witness: the mesh of NRECT segments rebuilt on entering zen mode,
\* with its 720 groups.
C6_Witness ==
    /\ MeshBuilt
    /\ m_NumPoints = NRECT
    /\ zenMode
    /\ Len(mobiusStripMesh.groups) = 2 * NRECT

\* Material 0 is the light one, materials 1 and 2 are the dark ones.
Dark(materialIndex) == materialIndex \in {1, 2}
OuterMaterial(i) == mobiusStripMesh.groups[2 * i + 1].materialIndex
MiddleMaterial(i) == mobiusStripMesh.groups[2 * i + 2].materialIndex

\* C7: the materials of the groups follow the table of the tick schemes.
C7_TickSchemeTable ==
    MeshBuilt =>
        /\ \A i \in 0..(m_NumPoints - 1) :
               /\ OuterMaterial(i) \in {0, 1, 2}
               /\ MiddleMaterial(i) \in {0, 1, 2}
               /\ currentTickScheme = "minimal" =>
                      /\ Dark(OuterMaterial(i)) <=> (i % 30 = 0)
                      /\ Dark(MiddleMaterial(i)) <=> (i % 30 = 0)
               /\ currentTickScheme = "standard" =>
                      /\ Dark(OuterMaterial(i)) <=> (i % 30 = 0)
                      /\ Dark(MiddleMaterial(i)) <=> (i % 6 = 0)
               /\ currentTickScheme = "alternating" =>
                      /\ Dark(OuterMaterial(i)) <=> ((i \div 30) % 2 = 1)
                      /\ MiddleMaterial(i) = OuterMaterial(i)
               /\ currentTickScheme = "alternating_ticks" =>
                      /\ Dark(OuterMaterial(i)) <=> ((i \div 30) % 2 = 1)
                      /\ Dark(MiddleMaterial(i)) <=> ((i \div 6) % 2 = 0)
        /\ (currentTickScheme = "standard" /\ m_NumPoints > 6) =>
               /\ Dark(OuterMaterial(0)) /\ Dark(MiddleMaterial(0))
               /\ ~Dark(OuterMaterial(6)) /\ Dark(MiddleMaterial(6))
               /\ ~Dark(OuterMaterial(1)) /\ ~Dark(MiddleMaterial(1))

\* C7 witness: the mesh of NRECT segments built with alternating_ticks:
\* segments 30 and 36 lie in an odd hour stripe (dark outer thirds) and
\* segment 6 in an even one (light); the minute stripes of segments 30 and
\* 6 are odd (light middle third) and that of segment 36 is even (dark).
C7_Witness ==
    /\ MeshBuilt
    /\ m_NumPoints = NRECT
    /\ currentTickScheme = "alternating_ticks"
    /\ Dark(OuterMaterial(30)) /\ ~Dark(MiddleMaterial(30))
    /\ Dark(OuterMaterial(36)) /\ Dark(MiddleMaterial(36))
    /\ ~Dark(OuterMaterial(6)) /\ ~Dark(MiddleMaterial(6))

\* C8: the edge path has 2*N points, the front-inner corners followed by
\* the back-outer corners, and closes on itself: the front-inner corner
\* formula at index N gives the first back-outer corner and the back-outer
\* corner formula at index N gives the first front-inner corner.
C8_EdgePathClosed ==
    pc = "running" =>
        /\ Len(edgePath) = 2 * m_NumPoints
        /\ \A k \in 0..(m_NumPoints - 1) :
               /\ At(edgePath, k) = At(pointArrays.FrontInnerCorner, k)
               /\ At(edgePath, m_NumPoints + k) = At(pointArrays.BackOuterCorner, k)
        /\ FrontInnerCorner(m_NumPoints, m_NumPoints) = At(edgePath, m_NumPoints)
        /\ BackOuterCorner(m_NumPoints, m_NumPoints) = At(edgePath, 0)

\* C8 witness: the edge path of NRECT cross-sections, whose two halves
\* start at different points.
C8_Witness ==
    /\ pc = "running"
    /\ m_NumPoints = NRECT
    /\ Len(edgePath) = 2 * NRECT
    /\ At(edgePath, NRECT) # At(edgePath, 0)
    /\ At(edgePath, NRECT) = BackOuterCorner(NRECT, 0)

(***************************************************************************)
(* Properties of the hour indicator's path (SpecClock, SpecDay)            *)
(***************************************************************************)

\* C9: the hour value 0 is mapped to path index N/2 with fraction 0, the
\* hour value 12 to index 3N/2 with fraction 0 (N even, as NRECT is), and
\* the hour values h and h + 24 (so 0 and 24) to the same index and
\* fraction, which lie in the path.
C9_HourMapping ==
    lastUpdate # Null =>
        LET h == lastUpdate.hour24
            even == m_NumPoints % 2 = 0
        IN /\ lastUpdate.index1 \in 0..(2 * m_NumPoints - 1)
           /\ lastUpdate.index2 \in 0..(2 * m_NumPoints - 1)
           /\ lastUpdate.fraction \in 0..(PathUnit - 1)
           /\ (even /\ h = 0) =>
                  lastUpdate.index1 = m_NumPoints \div 2 /\ lastUpdate.fraction = 0
           /\ (even /\ h = 12 * HourUnit) =>
                  lastUpdate.index1 = (3 * m_NumPoints) \div 2 /\ lastUpdate.fraction = 0
           /\ (even /\ h = 24 * HourUnit) =>
                  lastUpdate.index1 = m_NumPoints \div 2 /\ lastUpdate.fraction = 0
           /\ HourToPath(m_NumPoints, h + 24 * HourUnit) = HourToPath(m_NumPoints, h)
           /\ HourToPath(m_NumPoints, h + 24 * HourUnit).index1 = lastUpdate.index1
           /\ HourToPath(m_NumPoints, h + 24 * HourUnit).fraction = lastUpdate.fraction

\* C9 witness: a frame of fast mode in which the paused hour value is 24,
\* mapped like the hour value 0.
C9_Witness ==
    /\ lastUpdate # Null
    /\ lastUpdate.hour24 = 24 * HourUnit
    /\ lastUpdate.index1 = NRECT \div 2
    /\ lastUpdate.fraction = 0

\* C10 as stated: after 12 hours the hour indicator has been at every
\* index of the edge path.
C10_Original ==
    (lastUpdate # Null /\ travelled = 12 * TicksPerHour) =>
        visited = 0..(2 * m_NumPoints - 1)

\* C10, amended: as the hour value advances through 24 hours the hour
\* indicator traverses the whole edge path exactly once, at one index per
\* 24/(2N) hours: the number of indices it has been at grows with the time
\* travelled (travelled/24h < c/2N <= travelled/24h + 2/2N), is N or
\* N + 1, half of the path with its ends, after 12 hours, and is 2N, the
\* whole path, only after 24 hours.
C10_OncePerDay ==
    lastUpdate # Null =>
        LET c == Cardinality(visited)
        IN /\ visited \subseteq 0..(2 * m_NumPoints - 1)
           /\ lastUpdate.index1 \in visited
           /\ travelled < TicksPerDay =>
                  /\ travelled * 2 * m_NumPoints < c * TicksPerDay
                  /\ c * TicksPerDay <= travelled * 2 * m_NumPoints + 2 * TicksPerDay
           /\ travelled = 12 * TicksPerHour => c \in {m_NumPoints, m_NumPoints + 1}
           /\ travelled = TicksPerDay => visited = 0..(2 * m_NumPoints - 1)

\* C10 witness: a day of frames has passed, the hour indicator has been
\* at every index of the edge path and is back at the index it started at.
C10_Witness ==
    /\ lastUpdate # Null
    /\ travelled = TicksPerDay
    /\ visited = 0..(2 * m_NumPoints - 1)
    /\ clock \in StartClocks
    /\ lastUpdate.hour24 = clock

(***************************************************************************)
(* Properties of fast mode (SpecFast)                                      *)
(***************************************************************************)

\* The raw fast hour (24/60) * sec60 of the last updateClock() call, as an
\* hour value.
RawFastHour == 24 * 60 * lastUpdate.sec60

\* The whole hours within 0.2 hour (12 fast minutes), inclusive, of the raw
\* fast hour.
HoursNearRaw ==
    {k \in 0..24 : 5 * (RawFastHour - k * HourUnit) \in (-HourUnit)..HourUnit}

C12_MinuteFromRawHour ==
    [][ (lastUpdate' # Null /\ lastUpdate'.fastMode) =>
           /\ lastUpdate'.min60 = (24 * 60 * lastUpdate'.sec60) % HourUnit
           /\ \A shape \in ShapeInputs :
                  ClockValues(clock', TRUE, [indicatorShapes' EXCEPT !.hours = shape]).min60
                      = lastUpdate'.min60
           /\ ( /\ lastUpdate # Null
                /\ lastUpdate.fastMode
                /\ lastUpdate'.hour24 = lastUpdate.hour24
                /\ lastUpdate'.sec60 # lastUpdate.sec60 )
               => lastUpdate'.min60 # lastUpdate.min60 ]_vars

\* C12 witness: a frame of fast mode with the outer ring in which the hour
\* value is paused after the whole hour and the minute value has moved on.
C12_Witness ==
    /\ lastUpdate # Null
    /\ lastUpdate.fastMode
    /\ lastUpdate.hoursShape = "outer-ring"
    /\ lastUpdate.hour24 < RawFastHour
    /\ lastUpdate.min60 = RawFastHour - lastUpdate.hour24
    /\ lastUpdate.min60 > 0

\* C13 as stated: the hour value given to the mapping is at least 0 and
\* less than 24.
C13_Original ==
    lastUpdate # Null => lastUpdate.hour24 \in 0..(24 * HourUnit - 1)

(***************************************************************************)
(* Properties of zen mode (SpecZen)                                        *)
(***************************************************************************)

\* C14: leaving zen mode restores the tick scheme (and the mesh built with
\* it), the visibility of the hour labels and the fast mode flag to what
\* they were when zen mode was entered: the snapshot is taken on entering,
\* no handler changes it while zen mode is active, and leaving restores
\* from it.
C14_ZenRestores ==
    [][ /\ (~zenMode /\ zenMode') =>
              /\ preZenState'.tickScheme = currentTickScheme
              /\ preZenState'.hoursVisible = hourNumbersGroup.visible
              /\ preZenState'.fastMode = fastMode
        /\ (zenMode /\ zenMode') => preZenState' = preZenState
        /\ (zenMode /\ ~zenMode') =>
              /\ currentTickScheme' = preZenState.tickScheme
              /\ mobiusStripMesh' =
                     createMobiusStripMesh(m_NumPoints, pointArrays, preZenState.tickScheme)
              /\ hourNumbersGroup'.visible = preZenState.hoursVisible
              /\ fastMode' = preZenState.fastMode ]_vars

\* C14 witness: zen mode has been entered and left, and the settings are
\* those of the snapshot, none of them the one zen mode applies.
C14_Witness ==
    /\ ~zenMode
    /\ preZenState # Null
    /\ preZenState = [hoursVisible |-> TRUE, tickScheme |-> "alternating_ticks",
                      fastMode |-> TRUE]
    /\ currentTickScheme = "alternating_ticks"
    /\ hourNumbersGroup.visible
    /\ fastMode
    /\ sceneLog = StripSceneOps(mobiusStripMesh)

\* C15: the step that enters zen mode leaves the tick scheme minimal, the
\* strip mesh rebuilt with it (the old mesh replaced in the scene), the
\* hour labels hidden and fast mode off, whatever the settings were.
C15_ZenEntry ==
    [][ (~zenMode /\ zenMode') =>
           /\ currentTickScheme' = "minimal"
           /\ mobiusStripMesh' = createMobiusStripMesh(m_NumPoints, pointArrays, "minimal")
           /\ sceneLog' = StripSceneOps(mobiusStripMesh)
           /\ mobiusGroup'["strip"] = 1
           /\ ~hourNumbersGroup'.visible
           /\ ~fastMode' ]_vars

\* C15 witness: zen mode entered from fast mode with the labels shown and
\* another tick scheme.
C15_Witness ==
    /\ zenMode
    /\ preZenState = [hoursVisible |-> TRUE, tickScheme |-> "alternating", fastMode |-> TRUE]
    /\ currentTickScheme = "minimal"
    /\ ~hourNumbersGroup.visible
    /\ ~fastMode

(***************************************************************************)
(* Properties of the scene (SpecScene)                                     *)
(***************************************************************************)

\* The kinds of mesh the handlers replace.
MeshKinds == {"strip", "hours", "minutes", "seconds"}

\* The positions of an operation on a kind in the scene log.
OpPositions(op, kind) == {k \in DOMAIN sceneLog : sceneLog[k] = SceneOp(op, kind)}

\* In the scene log, every mesh removed has its geometry and its material
\* disposed before the new mesh of its kind is added.
ReleasedBeforeAttached ==
    \A kind \in MeshKinds :
        \A r \in OpPositions("remove", kind) :
            \E g \in OpPositions("dispose geometry", kind),
               m \in OpPositions("dispose material", kind),
               a \in OpPositions("add", kind) :
                r < g /\ r < m /\ g < a /\ m < a

\* C16 as stated: once initialized, the scene group holds exactly one strip
\* mesh and one mesh for each of the three indicators, and every
\* replacement removes the old mesh and releases its resources (geometry
\* and material) before it attaches the new one.
C16_Original ==
    pc = "running" =>
        /\ \A kind \in MeshKinds : mobiusGroup[kind] = 1
        /\ ReleasedBeforeAttached

\* C17 as stated: every change of an indicator's shape disposes the
\* previous geometry and the previous material, each exactly once, and no
\* replaced geometry or material stays unreleased.
C17_Original ==
    pc = "running" =>
        \A type \in IndicatorTypes :
            /\ unreleased[type].geometry = 0
            /\ unreleased[type].material = 0
            /\ OpPositions("remove", type) # {} =>
                   /\ Cardinality(OpPositions("dispose geometry", type)) = 1
                   /\ Cardinality(OpPositions("dispose material", type)) = 1

\* The shapes the documentation lists for each indicator.
SupportedShapes ==
    [hours |-> {"outer-ring", "ring", "disc", "sphere"},
     minutes |-> {"ring", "disc", "sphere"},
     seconds |-> {"sphere", "disc"}]

\* C19 as stated: an unrecognized tick scheme or an unrecognized or
\* unsupported shape falls back to the default, so that the stored tick
\* scheme and the stored shapes are always recognized ones and the meshes
\* are those of the stored configuration.
C19_Original ==
    pc = "running" =>
        /\ currentTickScheme \in TickSchemes
        /\ mobiusStripMesh = createMobiusStripMesh(m_NumPoints, pointArrays, currentTickScheme)
        /\ \A type \in IndicatorTypes :
               /\ indicatorShapes[type] \in SupportedShapes[type]
               /\ IndicatorMesh(type).geometry = ShapeGeometry(type, indicatorShapes[type])

(***************************************************************************)
(* Properties of the frame (SpecFrame, SpecFast)                           *)
(***************************************************************************)

\* The position of a stage in a frame log, 0 if the frame did not run it.
StagePos(log, stage) ==
    IF \E k \in DOMAIN log : log[k] = stage
    THEN CHOOSE k \in DOMAIN log : log[k] = stage
    ELSE 0

\* Both stages ran, the first before the second.
Before(log, first, second) ==
    StagePos(log, first) > 0 /\ StagePos(log, first) < StagePos(log, second)

\* C18 as stated: a frame reads the wall clock, applies the fast mode
\* transform, maps time to positions, orients the indicators, renders,
\* then increments the rotation if it is enabled, and requests the next
\* frame last.
C18_Original ==
    frameLog # << >> =>
        /\ Before(frameLog, "read wall clock", "map hours")
        /\ Before(frameLog, "map hours", "render")
        /\ StagePos(frameLog, "increment rotation") > 0 =>
               Before(frameLog, "render", "increment rotation")
        /\ frameLog[Len(frameLog)] = "request next frame"

\* C18, amended: a frame requests the next frame first, then reads the
\* wall clock, applies the fast mode transform if fast mode is on, maps
\* the time to the position of each indicator and orients it, then
\* increments the rotation if it is enabled, and renders last.
C18_FrameOrder ==
    [][ (clock' # clock \/ pc' # pc) =>
           LET log == frameLog'
           IN /\ log[1] = "request next frame"
              /\ log[2] = "read wall clock"
              /\ log[Len(log)] = "render"
              /\ \A j, k \in DOMAIN log : log[j] = log[k] => j = k
              /\ (StagePos(log, "fast mode transform") > 0) <=> fastMode
              /\ fastMode => /\ Before(log, "read wall clock", "fast mode transform")
                             /\ Before(log, "fast mode transform", "map seconds")
              /\ Before(log, "map seconds", "orient seconds")
              /\ Before(log, "map minutes", "orient minutes")
              /\ Before(log, "map hours", "orient hours")
              /\ (StagePos(log, "increment rotation") > 0) <=> rotationEnabled
              /\ rotationEnabled => /\ Before(log, "orient hours", "increment rotation")
                                    /\ Before(log, "increment rotation", "render")
                                    /\ rotation' = rotation + 1
              /\ ~rotationEnabled => rotation' = rotation ]_vars

\* C18 witness: a frame of fast mode with the rotation enabled has run all
\* its stages and has incremented the rotation.
C18_Witness ==
    /\ pc = "running"
    /\ rotationEnabled
    /\ rotation > 0
    /\ Len(frameLog) = 11
    /\ frameLog[1] = "request next frame"
    /\ frameLog[3] = "fast mode transform"
    /\ frameLog[10] = "increment rotation"
    /\ frameLog[11] = "render"

\* C20 as stated: every lookup updateClock() makes into edgePath and into
\* the centerline point array uses an index within the bounds the array
\* has at the call.
C20_Original ==
    \A l \in lookups : l.index \in 0..(l.length - 1)

(***************************************************************************)
(* Properties of the outer ring's spin (SpecSpin, SpecFast)                *)
(***************************************************************************)

\* The hour value of the last updateClock is within 1 clock minute,
\* inclusive, of a whole hour.
WithinMinuteOfHour ==
    \E k \in 0..24 : 60 * (lastUpdate.hour24 - k * HourUnit) \in (-HourUnit)..HourUnit

ParamValue(name, default) ==
    IF \E p \in params : p.name = name
    THEN (CHOOSE p \in params : p.name = name).value
    ELSE default

\* C22 as stated: when init() has run, the time style, the three shapes,
\* the tick scheme, the rotation, the visibility of the hour labels and zen
\* mode are those the URL hash names, and the documented defaults for the
\* parameters it does not name (the tick scheme and the labels are those
\* of zen mode when the hash asks for zen mode).
C22_Original ==
    [][ (pc = "load" /\ pc' = "running") =>
           /\ timeStyle' = ParamValue("timeStyle", "ampm")
           /\ indicatorShapes'.hours = ParamValue("shapeHours", "outer-ring")
           /\ indicatorShapes'.minutes = ParamValue("shapeMinutes", "ring")
           /\ indicatorShapes'.seconds = ParamValue("shapeSeconds", "sphere")
           /\ rotationEnabled' = (ParamValue("rotation", "false") = "true")
           /\ zenMode' = (ParamValue("zen", "false") = "true")
           /\ ~zenMode' =>
                  /\ currentTickScheme' = ParamValue("tickScheme", "standard")
                  /\ hourNumbersGroup'.visible = (ParamValue("showHours", "true") = "true") ]_vars

(***************************************************************************)
(* Properties of the hour labels (SpecLabels)                              *)
(***************************************************************************)

\* C23 as stated: whatever the interleaving of label rebuilds and font
\* load completions, the hour labels group of the scene holds at most 24
\* labels and no two labels of the same hour.
C23_Original ==
    hourNumbersGroup # Null =>
        LET children == hourNumbersGroup.children
        IN /\ Len(children) <= 24
           /\ \A j, k \in DOMAIN children :
                  children[j].hour = children[k].hour => j = k

\* C26: every hour label h of the group is anchored at the edge path index
\* (N/2 - 30 * h) mod 2N; a frame whose hour value is the whole hour
\* h mod 24 puts the hour indicator at exactly that index, with fraction
\* 0; and the cross-section of the index, index mod N, starts an hour
\* tick segment (it is divisible by 30).
C26_LabelAtHourIndex ==
    hourNumbersGroup # Null =>
        \A j \in DOMAIN hourNumbersGroup.children :
            LET label == hourNumbersGroup.children[j]
            IN /\ label.hour \in 1..24
               /\ label.idx = (m_NumPoints \div 2 - 30 * label.hour) % (2 * m_NumPoints)
               /\ (lastUpdate # Null /\ lastUpdate.hour24 = (label.hour % 24) * HourUnit) =>
                      /\ lastUpdate.index1 = label.idx
                      /\ lastUpdate.fraction = 0
               /\ (label.idx % m_NumPoints) % 30 = 0

\* C26 witness: the labels are built and a frame at 2 o'clock has put the
\* hour indicator at the index of the label of hour 2.
C26_Witness ==
    /\ hourNumbersGroup # Null
    /\ Len(hourNumbersGroup.children) = 24
    /\ lastUpdate # Null
    /\ lastUpdate.hour24 = 2 * HourUnit
    /\ hourNumbersGroup.children[2].hour = 2
    /\ hourNumbersGroup.children[2].idx = lastUpdate.index1

(***************************************************************************)
(* Properties of zen mode under other user actions (SpecZen)               *)
(***************************************************************************)

\* C24 as stated: while zen mode is active the tick scheme is minimal, the
\* hour labels are hidden and fast mode is off, whatever other user
\* actions have been taken since zen mode was entered.
C24_Original ==
    (pc = "running" /\ zenMode) =>
        /\ currentTickScheme = "minimal"
        /\ ~hourNumbersGroup.visible
        /\ ~fastMode

(***************************************************************************)
(* Properties of the pauses of fast mode (SpecFast)                        *)
(***************************************************************************)

\* The second, in ticks, at which the pause at hour k begins: half a second
\* before k fast hours of 2.5 seconds.
PauseStart(k) == ((5 * k - 1) * TicksPerSecond) \div 2

C27_RotationZeroWhenOff ==
    [][ /\ ~rotationEnabled' => rotation' = 0
        /\ rotationEnabled' # rotationEnabled => rotation' = 0
        /\ (rotationEnabled' = rotationEnabled /\ clock' # clock) =>
               rotation' = (IF rotationEnabled THEN rotation + 1 ELSE rotation)
        /\ (rotationEnabled' = rotationEnabled /\ clock' = clock) =>
               rotation' = rotation ]_vars

\* C27 witness: the rotation has been switched off after frames had turned
\* the group, in zen mode, and the angle is 0 again.
C27_Witness ==
    /\ pc = "running"
    /\ ~rotationEnabled
    /\ rotation = 0
    /\ zenMode
    /\ clock >= 2
    /\ Len(frameLog) > 0
    /\ \E k \in DOMAIN frameLog : frameLog[k] = "increment rotation"

====
